---- MODULE Spec2Model ----
(***************************************************************************)
(* kensys: the reconciliation engine of ProjectAnalyzer (call resolution   *)
(* over per-file function facts) and of EntityMapper (grouping of type     *)
(* declarations into entities).                                            *)
(*                                                                         *)
(* Spec       one analyzeProject run of a freshly constructed analyzer.    *)
(* SpecReuse  the same, followed by further analyzeProject calls on the    *)
(*            same instance (this.allFiles is an instance field).          *)
(* SpecEntities  EntityMapper.analyzeEntities over a list of declarations. *)
(* SpecNames  the same over longer lists of API-layer interfaces.          *)
(* SpecFields  the same over declarations that have fields.                *)
(* SpecNormalize  EntityMapper.normalizeName over identifiers.             *)
(* SpecSimilar  EntityMapper.isSimilar over pairs of names.                *)
(* SpecLoop   one analyzeProject run, its parse loop followed file by      *)
(*            file.                                                        *)
(***************************************************************************)
EXTENDS Integers, Sequences, FiniteSets, TLC

VARIABLES
    disk,       \* the source tree: path -> the functions its file declares
    allFiles,   \* ProjectAnalyzer.allFiles
    pc,         \* position inside analyzeProject / analyzeEntities
    runs,       \* analyzeProject calls started on this instance
    graph,      \* the DependencyGraph of the current run
    result,     \* the ProjectCodex returned by the last completed run
    dataTypes,  \* the DataType list extractDataTypes hands to the grouping
    catalog,    \* the entities analyzeEntities returns
    features,   \* the Feature list createFeatures returns
    unreadable, \* the paths whose file can no longer be read after parsing
    identifier, \* the argument of a normalizeName call
    once,       \* what normalizeName returns for identifier
    twice,      \* what normalizeName returns for once
    left,       \* the first argument of an isSimilar call
    right,      \* the second argument of an isSimilar call
    forth,      \* what isSimilar(left, right) returns
    back,       \* what isSimilar(right, left) returns
    found,      \* the files findProjectFiles returned to analyzeProject
    pending,    \* the discovered files the parse loop has not reached yet
    issues,     \* the missing-function issues of analyzeCodeQuality
    passport    \* the architecture part of the ProjectPassport

\* the variables of a normalizeName call
nameVars == <<identifier, once, twice>>

\* the variables of an isSimilar call
pairVars == <<left, right, forth, back>>

\* the variables of the parse loop, of analyzeCodeQuality and of
\* generateProjectPassport
stepVars == <<found, pending, issues, passport>>

vars == <<disk, allFiles, pc, runs, graph, result, dataTypes, catalog,
          features, unreadable, nameVars, pairVars, stepVars>>

----------------------------------------------------------------------------
(* Bounds *)

MaxFuncs == 3      \* functions in the whole source tree
MaxCalls == 2      \* callee names per function
MaxRuns == 2       \* analyzeProject calls on one instance
MaxLoopFuncs == 2  \* functions in the source tree when the parse loop is followed
MaxTypes == 3      \* type declarations in the corpus
MaxNames == 4      \* type declarations in a corpus of interfaces only
MaxFieldTypes == 3 \* type declarations in a corpus with fields
MaxLen == 3        \* characters of an identifier handed to normalizeName
MaxSimLen == 5     \* characters of a name handed to isSimilar

----------------------------------------------------------------------------
(* Generic sequence helpers *)

Range(s) == {s[i] : i \in DOMAIN s}

Includes(s, x) == \E i \in DOMAIN s : s[i] = x

Min(x, y) == IF x <= y THEN x ELSE y

RECURSIVE Flatten(_)
Flatten(ss) == IF ss = <<>> THEN <<>> ELSE Head(ss) \o Flatten(Tail(ss))

\* new Set(xs) spread back to an array: first occurrences, in order
RECURSIVE Dedup(_)
Dedup(xs) ==
    IF xs = <<>> THEN <<>>
    ELSE LET front == Dedup(SubSeq(xs, 1, Len(xs) - 1))
             last == xs[Len(xs)]
         IN IF Includes(front, last) THEN front ELSE Append(front, last)

\* every arrangement of the set S as a sequence
Arrangements(S) ==
    {s \in [1..Cardinality(S) -> S] : \A i, j \in DOMAIN s : i # j => s[i] # s[j]}

----------------------------------------------------------------------------
(* The source tree *)

\* the files of the project, listed in the order Array.prototype.sort gives
Paths == <<"src/api/a.ts", "src/api/b.ts", "src/db/c.ts">>

PathSet == Range(Paths)

PathRank(p) == CHOOSE i \in DOMAIN Paths : Paths[i] = p

PathLess(p, q) == PathRank(p) < PathRank(q)

\* insertion of a path into a sorted path list, after its equals
RECURSIVE InsertPath(_, _)
InsertPath(s, x) ==
    IF s = <<>> THEN <<x>>
    ELSE IF PathLess(x, Head(s)) THEN <<x>> \o s
    ELSE <<Head(s)>> \o InsertPath(Tail(s), x)

\* Array.prototype.sort over path strings
RECURSIVE SortPaths(_)
SortPaths(s) ==
    IF s = <<>> THEN <<>>
    ELSE InsertPath(SortPaths(SubSeq(s, 1, Len(s) - 1)), s[Len(s)])

Names == {"getBalance", "pay"}

\* the order in which the callee names appear in a function body
NameOrder == <<"getBalance", "pay">>

\* extractCallsFromText: callee names in order of first appearance, no repeats
CallLists ==
    {SelectSeq(NameOrder, LAMBDA n : n \in S) :
        S \in {T \in SUBSET Names : Cardinality(T) <= MaxCalls}}

\* what the parser extracts for one function (the fields resolution reads)
FunctionFacts == [name : Names, calls : CallLists]

----------------------------------------------------------------------------
(* ProjectAnalyzer *)

FindProjectFilesUnsorted(matches) == Dedup(matches)

\* [...new Set(files)].sort() over the glob matches
FindProjectFiles(matches) == SortPaths(Dedup(matches))

\* JavaScriptParser.parse: a FileAnalysis whose functions have no calledBy yet
Parse(filePath) ==
    [path |-> filePath,
     functions |-> [i \in DOMAIN disk[filePath] |->
                        [name |-> disk[filePath][i].name,
                         calls |-> disk[filePath][i].calls,
                         calledBy |-> <<>>]]]

\* the parse loop: one FileAnalysis pushed per discovered file
ParseAll(files) == [i \in DOMAIN files |-> Parse(files[i])]

\* Map.set: an existing key keeps its position and takes the new value
MapSet(m, k, v) ==
    IF \E i \in DOMAIN m : m[i].key = k
    THEN [i \in DOMAIN m |-> IF m[i].key = k THEN [key |-> k, val |-> v] ELSE m[i]]
    ELSE Append(m, [key |-> k, val |-> v])

\* the functions of a file list with the path of their file, in iteration order
FuncEntries(files) ==
    Flatten([i \in DOMAIN files |->
        [j \in DOMAIN files[i].functions |->
            [path |-> files[i].path, func |-> files[i].functions[j]]]])

\* analyzeCallDependencies, first loop: path:name and bare name both map to func
RECURSIVE BuildFunctionMap(_)
BuildFunctionMap(entries) ==
    IF entries = <<>> THEN <<>>
    ELSE LET e == entries[Len(entries)]
             m == BuildFunctionMap(SubSeq(entries, 1, Len(entries) - 1))
         IN MapSet(MapSet(m, e.path \o ":" \o e.func.name, e.func),
                   e.func.name, e.func)

\* the caller names pushed onto func.calledBy, in functionMap order
RECURSIVE Backlinks(_, _, _)
Backlinks(functionMap, path, func) ==
    IF functionMap = <<>> THEN <<>>
    ELSE LET key == Head(functionMap).key
             calledFunc == Head(functionMap).val
             rest == Backlinks(Tail(functionMap), path, func)
         IN IF Includes(calledFunc.calls, func.name)
                /\ key # path \o ":" \o func.name
            THEN <<calledFunc.name>> \o rest
            ELSE rest

\* a resolver that records the backlink only on the first declaration of a name
AnalyzeCallDependenciesFirstOnly(files) ==
    LET functionMap == BuildFunctionMap(FuncEntries(files))
        First(n) == CHOOSE i \in DOMAIN files :
                        /\ \E j \in DOMAIN files[i].functions :
                               files[i].functions[j].name = n
                        /\ \A k \in 1..(i - 1) : \A j \in DOMAIN files[k].functions :
                               files[k].functions[j].name # n
    IN [i \in DOMAIN files |->
           [files[i] EXCEPT !.functions =
               [j \in DOMAIN files[i].functions |->
                   [files[i].functions[j] EXCEPT !.calledBy =
                       IF i = First(files[i].functions[j].name)
                       THEN @ \o Backlinks(functionMap, files[i].path,
                                           files[i].functions[j])
                       ELSE @]]]]

\* analyzeCallDependencies: this.allFiles with calledBy appended
AnalyzeCallDependencies(files) ==
    LET functionMap == BuildFunctionMap(FuncEntries(files))
    IN [i \in DOMAIN files |->
           [files[i] EXCEPT !.functions =
               [j \in DOMAIN files[i].functions |->
                   [files[i].functions[j] EXCEPT !.calledBy =
                       @ \o Backlinks(functionMap, files[i].path,
                                      files[i].functions[j])]]]]

NodeId(name, path) == name \o "@" \o path

\* the edge of a callee name targeted at the first file of the list, whether
\* or not that file declares the name
EdgesForCallFirstFile(files, id, called) ==
    IF \A k \in DOMAIN files : \A j \in DOMAIN files[k].functions :
           files[k].functions[j].name # called
    THEN <<>>
    ELSE <<[from |-> id, to |-> NodeId(called, files[1].path), type |-> "calls"]>>

\* the edge one callee name of one function produces: the first file of the
\* list that declares the name, or none
EdgesForCall(files, id, called) ==
    LET declaring == {k \in DOMAIN files :
                         \E j \in DOMAIN files[k].functions :
                             files[k].functions[j].name = called}
    IN IF declaring = {} THEN <<>>
       ELSE LET k == CHOOSE x \in declaring : \A y \in declaring : x <= y
            IN <<[from |-> id, to |-> NodeId(called, files[k].path),
                  type |-> "calls"]>>

\* the edges pushed before deduplication, in push order
RawEdges(files) ==
    LET entries == FuncEntries(files)
    IN Flatten([e \in DOMAIN entries |->
           Flatten([c \in DOMAIN entries[e].func.calls |->
               EdgesForCall(files,
                            NodeId(entries[e].func.name, entries[e].path),
                            entries[e].func.calls[c])])])

\* the nodes map: id -> node, a later function of the same id replacing an earlier
GraphNodes(files) ==
    LET entries == FuncEntries(files)
        ids == {NodeId(entries[e].func.name, entries[e].path) : e \in DOMAIN entries}
    IN [id \in ids |->
           LET e == CHOOSE x \in DOMAIN entries :
                        /\ NodeId(entries[x].func.name, entries[x].path) = id
                        /\ \A y \in DOMAIN entries :
                               NodeId(entries[y].func.name, entries[y].path) = id
                                   => y <= x
           IN [id |-> id, type |-> "function",
               name |-> entries[e].func.name, file |-> entries[e].path]]

BuildDependencyGraphNoDedup(files) ==
    [nodes |-> GraphNodes(files), edges |-> RawEdges(files)]

\* buildDependencyGraph
BuildDependencyGraph(files) ==
    [nodes |-> GraphNodes(files), edges |-> Dedup(RawEdges(files))]

AllFunctions(files) == Flatten([i \in DOMAIN files |-> files[i].functions])

\* the ProjectCodex fields call resolution decides
Codex(files, g) ==
    [filesAnalyzed |-> Len(files),
     allFunctions |-> AllFunctions(files),
     dependencies |-> g]

EmptyGraph == [nodes |-> <<>>, edges |-> <<>>]

NoCatalog == [entities |-> <<>>, typeMismatches |-> <<>>]

NoResult == [filesAnalyzed |-> 0, allFunctions |-> <<>>, dependencies |-> EmptyGraph]

\* getBuiltInFunctions: global functions, console, array and string methods
\* (a part of the list; no function name of the source tree is on it)
BuiltInFunctions ==
    {"console", "JSON", "Math", "setTimeout", "parseInt", "fetch",
     "log", "map", "filter", "push", "split", "replace"}

\* isCommonMethodName
IsCommonMethodName(funcName) ==
    funcName \in {"delete", "save", "create", "update", "remove", "destroy",
                  "find", "findOne", "findAll", "get", "set", "add", "clear",
                  "init", "close", "open", "read", "write", "parse",
                  "serialize", "validate", "check", "verify", "authenticate",
                  "authorize"}

\* the names a file of the source tree imports
ImportNames == {"getBalance", "pay_1"}

\* name.split('_')[0]
BeforeUnderscore ==
    ("getBalance" :> "getBalance") @@ ("pay" :> "pay") @@ ("pay_1" :> "pay")

\* calledFunc.split('.')[0]: extractCallsFromText gives names without a dot
MethodBase(calledFunc) == calledFunc

\* analyzeCodeQuality: the two file.imports.some(...) tests on a callee name
IsImported(imports, calledFunc) ==
    \/ \E i \in imports : i = calledFunc
    \/ \E i \in imports :
           \/ i = MethodBase(calledFunc)
           \/ BeforeUnderscore[i] = BeforeUnderscore[MethodBase(calledFunc)]

\* an implementation test that looks at the functions of the first file only
IsImplementedInFirstFile(files, calledFunc) ==
    /\ files # <<>>
    /\ \E j \in DOMAIN files[1].functions : files[1].functions[j].name = calledFunc

\* allFunctions.some(f => f.name === calledFunc)
IsImplemented(files, calledFunc) ==
    \E f \in Range(AllFunctions(files)) : f.name = calledFunc

\* analyzeCodeQuality, the body of the loop over func.calls: the
\* missing-function issue of one callee name, or none
MissingFunction(files, imports, entry, calledFunc) ==
    IF \/ calledFunc \in BuiltInFunctions
       \/ IsImported(imports[entry.path], calledFunc)
       \/ IsCommonMethodName(calledFunc)
       \/ IsImplemented(files, calledFunc)
    THEN <<>>
    ELSE <<[type |-> "missing-function", location |-> entry.path,
            func |-> entry.func.name, called |-> calledFunc]>>

\* analyzeCodeQuality: the missing-function issues, in push order
MissingFunctions(files, imports) ==
    LET entries == FuncEntries(files)
    IN Flatten([e \in DOMAIN entries |->
           Flatten([c \in DOMAIN entries[e].func.calls |->
               MissingFunction(files, imports, entries[e],
                               entries[e].func.calls[c])])])

\* insertion of a file into a list sorted by function count, after the files
\* that have as many functions
RECURSIVE InsertByFunctions(_, _)
InsertByFunctions(s, x) ==
    IF s = <<>> THEN <<x>>
    ELSE IF Len(x.functions) > Len(Head(s).functions) THEN <<x>> \o s
    ELSE <<Head(s)>> \o InsertByFunctions(Tail(s), x)

\* this.allFiles.sort((a, b) => b.functions.length - a.functions.length):
\* the array itself, most functions first, stable
RECURSIVE SortByFunctions(_)
SortByFunctions(s) ==
    IF s = <<>> THEN <<>>
    ELSE InsertByFunctions(SortByFunctions(SubSeq(s, 1, Len(s) - 1)), s[Len(s)])

\* path.basename
Basename ==
    (Paths[1] :> "a.ts") @@ (Paths[2] :> "b.ts") @@ (Paths[3] :> "c.ts")

\* generateProjectPassport: mainModules, computed on the sorted array
MainModules(sorted) ==
    [i \in 1..Min(5, Len(sorted)) |-> Basename[sorted[i].path]]

\* path.relative(process.cwd(), file.path).split(path.sep), the working
\* directory being the root of the source tree
PathParts ==
    (Paths[1] :> <<"src", "api", "a.ts">>)
        @@ (Paths[2] :> <<"src", "api", "b.ts">>)
        @@ (Paths[3] :> <<"src", "db", "c.ts">>)

\* featureName.replace(/\./g, '').toLowerCase(), for the names that the
\* paths of the source tree can give
StripDotsLowerCase ==
    ("common" :> "common") @@ ("src" :> "src") @@ ("api" :> "api") @@ ("db" :> "db")
        @@ ("a.ts" :> "ats") @@ ("b.ts" :> "bts") @@ ("c.ts" :> "cts")

\* createFeatures: the feature name of a file
FeatureName(path) ==
    LET parts == PathParts[path]
        featureName == IF Len(parts) >= 2
                       THEN IF parts[1] = "src" THEN parts[2] ELSE parts[1]
                       ELSE "common"
    IN StripDotsLowerCase[featureName]

\* createFeatures, first loop over the first n files, a file whose feature
\* exists replacing the functions of the feature
RECURSIVE GroupFilesReplacing(_, _)
GroupFilesReplacing(n, files) ==
    IF n = 0 THEN <<>>
    ELSE LET m == GroupFilesReplacing(n - 1, files)
             featureName == FeatureName(files[n].path)
         IN IF \E i \in DOMAIN m : m[i].name = featureName
            THEN [i \in DOMAIN m |->
                     IF m[i].name = featureName
                     THEN [m[i] EXCEPT !.functions = files[n].functions,
                                       !.files = Append(@, files[n].path)]
                     ELSE m[i]]
            ELSE Append(m, [name |-> featureName,
                            functions |-> files[n].functions,
                            files |-> <<files[n].path>>,
                            dependencies |-> <<>>])

\* createFeatures, first loop over the first n files: the features map
RECURSIVE GroupFiles(_, _)
GroupFiles(n, files) ==
    IF n = 0 THEN <<>>
    ELSE LET m == GroupFiles(n - 1, files)
             featureName == FeatureName(files[n].path)
         IN IF \E i \in DOMAIN m : m[i].name = featureName
            THEN [i \in DOMAIN m |->
                     IF m[i].name = featureName
                     THEN [m[i] EXCEPT !.functions = @ \o files[n].functions,
                                       !.files = Append(@, files[n].path)]
                     ELSE m[i]]
            ELSE Append(m, [name |-> featureName,
                            functions |-> files[n].functions,
                            files |-> <<files[n].path>>,
                            dependencies |-> <<>>])

\* the dependency loop of createFeatures without the otherName !== name test
FeatureDependenciesWithSelf(feats, a) ==
    Dedup(Flatten([f \in DOMAIN feats[a].functions |->
        Flatten([c \in DOMAIN feats[a].functions[f].calls |->
            Flatten([b \in DOMAIN feats |->
                IF \E g \in DOMAIN feats[b].functions :
                          feats[b].functions[g].name = feats[a].functions[f].calls[c]
                THEN <<feats[b].name>>
                ELSE <<>>])])]))

\* createFeatures, second loop: Array.from(deps) of the feature at position a
FeatureDependencies(feats, a) ==
    Dedup(Flatten([f \in DOMAIN feats[a].functions |->
        Flatten([c \in DOMAIN feats[a].functions[f].calls |->
            Flatten([b \in DOMAIN feats |->
                IF /\ feats[b].name # feats[a].name
                   /\ \E g \in DOMAIN feats[b].functions :
                          feats[b].functions[g].name = feats[a].functions[f].calls[c]
                THEN <<feats[b].name>>
                ELSE <<>>])])]))

\* createFeatures keeping, per feature, the functions of its last file only
CreateFeaturesLastFileOnly(files) ==
    LET feats == GroupFilesReplacing(Len(files), files)
    IN [a \in DOMAIN feats |->
           [feats[a] EXCEPT !.dependencies = FeatureDependencies(feats, a)]]

\* createFeatures
CreateFeatures(files) ==
    LET feats == GroupFiles(Len(files), files)
    IN [a \in DOMAIN feats |->
           [feats[a] EXCEPT !.dependencies = FeatureDependencies(feats, a)]]

----------------------------------------------------------------------------
(* Strings: an identifier is the sequence of its characters *)

Uppers == <<"A", "B", "C", "D", "E", "F", "G", "H", "I", "J", "K", "L", "M",
            "N", "O", "P", "Q", "R", "S", "T", "U", "V", "W", "X", "Y", "Z">>

Lowers == <<"a", "b", "c", "d", "e", "f", "g", "h", "i", "j", "k", "l", "m",
            "n", "o", "p", "q", "r", "s", "t", "u", "v", "w", "x", "y", "z">>

Digits == <<"0", "1", "2", "3", "4", "5", "6", "7", "8", "9">>

\* the characters in UTF-16 code unit order
CharOrder == Digits \o Uppers \o <<"_">> \o Lowers

CharCode(c) == CHOOSE i \in DOMAIN CharOrder : CharOrder[i] = c

IsUpper(c) == c \in Range(Uppers)

\* String.prototype.toLowerCase
ToLowerCase(s) ==
    [i \in DOMAIN s |->
        IF IsUpper(s[i]) THEN Lowers[CHOOSE k \in DOMAIN Uppers : Uppers[k] = s[i]]
        ELSE s[i]]

\* String.prototype.includes
StrIncludes(s, sub) ==
    \E i \in 0..(Len(s) - Len(sub)) : SubSeq(s, i + 1, i + Len(sub)) = sub

\* the default comparison of Array.prototype.sort: code units, a prefix first
RECURSIVE StrLess(_, _)
StrLess(a, b) ==
    IF b = <<>> THEN FALSE
    ELSE IF a = <<>> THEN TRUE
    ELSE IF Head(a) # Head(b) THEN CharCode(Head(a)) < CharCode(Head(b))
    ELSE StrLess(Tail(a), Tail(b))

RECURSIVE InsertString(_, _)
InsertString(s, x) ==
    IF s = <<>> THEN <<x>>
    ELSE IF StrLess(x, Head(s)) THEN <<x>> \o s
    ELSE <<Head(s)>> \o InsertString(Tail(s), x)

\* names.sort()
RECURSIVE SortStrings(_)
SortStrings(s) ==
    IF s = <<>> THEN <<>>
    ELSE InsertString(SortStrings(SubSeq(s, 1, Len(s) - 1)), s[Len(s)])

RECURSIVE InsertByLength(_, _)
InsertByLength(s, x) ==
    IF s = <<>> THEN <<x>>
    ELSE IF Len(x) > Len(Head(s)) THEN <<x>> \o s
    ELSE <<Head(s)>> \o InsertByLength(Tail(s), x)

\* names.sort((a, b) => b.length - a.length): longest first, stable
RECURSIVE SortByLengthDesc(_)
SortByLengthDesc(s) ==
    IF s = <<>> THEN <<>>
    ELSE InsertByLength(SortByLengthDesc(SubSeq(s, 1, Len(s) - 1)), s[Len(s)])

\* names.join('_')
RECURSIVE JoinUnderscore(_)
JoinUnderscore(names) ==
    IF names = <<>> THEN <<>>
    ELSE IF Len(names) = 1 THEN names[1]
    ELSE names[1] \o <<"_">> \o JoinUnderscore(Tail(names))

----------------------------------------------------------------------------
(* EntityMapper *)

\* .replace(/([A-Z])/g, '_$1')
SplitUpper(s) ==
    Flatten([i \in DOMAIN s |-> IF IsUpper(s[i]) THEN <<"_", s[i]>> ELSE <<s[i]>>])

\* .replace(/[^a-z0-9_]/g, '')
StripOther(s) ==
    SelectSeq(s, LAMBDA c : c \in Range(Lowers) \cup Range(Digits) \cup {"_"})

\* .replace(/_+/g, '_')
RECURSIVE CollapseUnderscores(_)
CollapseUnderscores(s) ==
    IF Len(s) < 2 THEN s
    ELSE IF s[1] = "_" /\ s[2] = "_" THEN CollapseUnderscores(Tail(s))
    ELSE <<s[1]>> \o CollapseUnderscores(Tail(s))

\* .replace(/^_|_$/g, '')
TrimUnderscore(s) ==
    LET a == IF s # <<>> /\ s[1] = "_" THEN Tail(s) ELSE s
    IN IF a # <<>> /\ a[Len(a)] = "_" THEN SubSeq(a, 1, Len(a) - 1) ELSE a

\* normalizeName with the last two replacements in the other order
NormalizeNameTrimFirst(name) ==
    CollapseUnderscores(TrimUnderscore(StripOther(SplitUpper(ToLowerCase(name)))))

\* normalizeName
NormalizeName(name) ==
    TrimUnderscore(CollapseUnderscores(StripOther(SplitUpper(ToLowerCase(name)))))

\* the type names declared in the corpora
Money == <<"M", "o", "n", "e", "y">>
MoneyLower == <<"m", "o", "n", "e", "y">>
Coin == <<"C", "o", "i", "n">>
Balance == <<"B", "a", "l", "a", "n", "c", "e">>
Balances == <<"B", "a", "l", "a", "n", "c", "e", "s">>
Tx == <<"T", "x">>

Coins == <<"C", "o", "i", "n", "s">>

TypeNames == {Money, MoneyLower, Coin, Balance, Balances, Tx}

\* the type names of the corpora that have up to MaxNames declarations
ClusterNames == {Money, MoneyLower, Coin, Coins, Tx}

\* the field names declared in the corpora
FieldAmount == <<"a", "m", "o", "u", "n", "t">>
FieldAmountUpper == <<"A", "m", "o", "u", "n", "t">>
FieldId == <<"i", "d">>

FieldNames == {FieldAmount, FieldAmountUpper, FieldId}

\* normalizeName of each type name and field name, computed once
NormalizedNames ==
    [n \in TypeNames \cup ClusterNames \cup FieldNames |-> NormalizeName(n)]

\* this.normalizeName(name) at the call sites of the grouping and of the
\* mismatch search
Normalized(name) ==
    IF name \in DOMAIN NormalizedNames THEN NormalizedNames[name]
    ELSE NormalizeName(name)

\* a similarity test that links nothing
IsSimilarNever(a, b) == FALSE

\* isSimilar: equal, one containing the other, or character overlap above 0.6
IsSimilar(a, b) ==
    LET normA == Normalized(a)
        normB == Normalized(b)
        common == Cardinality({i \in DOMAIN normA : normA[i] \in Range(normB)})
    IN \/ normA = normB
       \/ StrIncludes(normA, normB)
       \/ StrIncludes(normB, normA)
       \/ 10 * common > 3 * (Len(normA) + Len(normB))

\* a synonym table that has the money entry only
SynonymsMoneyOnly ==
    <<[key |-> <<"m", "o", "n", "e", "y">>,
       syns |-> << <<"c", "o", "i", "n">>,
                   <<"a", "m", "o", "u", "n", "t">>,
                   <<"b", "a", "l", "a", "n", "c", "e">>,
                   <<"v", "a", "l", "u", "e">>,
                   <<"p", "r", "i", "c", "e">> >>]>>

\* the synonyms table of findSimilarNames
Synonyms ==
    <<[key |-> <<"m", "o", "n", "e", "y">>,
       syns |-> << <<"c", "o", "i", "n">>,
                   <<"a", "m", "o", "u", "n", "t">>,
                   <<"b", "a", "l", "a", "n", "c", "e">>,
                   <<"v", "a", "l", "u", "e">>,
                   <<"p", "r", "i", "c", "e">> >>],
      [key |-> <<"c", "o", "i", "n">>,
       syns |-> << <<"m", "o", "n", "e", "y">>,
                   <<"a", "m", "o", "u", "n", "t">>,
                   <<"b", "a", "l", "a", "n", "c", "e">>,
                   <<"v", "a", "l", "u", "e">> >>],
      [key |-> <<"u", "s", "e", "r">>,
       syns |-> << <<"u", "s", "e", "r", "D", "a", "t", "a">>,
                   <<"u", "s", "e", "r", "I", "n", "f", "o">>,
                   <<"p", "r", "o", "f", "i", "l", "e">>,
                   <<"a", "c", "c", "o", "u", "n", "t">> >>],
      [key |-> <<"p", "r", "o", "d", "u", "c", "t">>,
       syns |-> << <<"i", "t", "e", "m">>,
                   <<"g", "o", "o", "d">>,
                   <<"s", "k", "u">>,
                   <<"c", "o", "m", "m", "o", "d", "i", "t", "y">> >>],
      [key |-> <<"t", "r", "a", "n", "s", "a", "c", "t", "i", "o", "n">>,
       syns |-> << <<"t", "x">>,
                   <<"t", "r", "a", "n", "s", "f", "e", "r">>,
                   <<"p", "a", "y", "m", "e", "n", "t">>,
                   <<"o", "r", "d", "e", "r">> >>],
      [key |-> <<"w", "a", "l", "l", "e", "t">>,
       syns |-> << <<"a", "c", "c", "o", "u", "n", "t">>,
                   <<"l", "e", "d", "g", "e", "r">>,
                   <<"b", "a", "l", "a", "n", "c", "e">> >>]>>

\* synonyms[normalized], or no list
SynonymsOf(normalized) ==
    IF \E i \in DOMAIN Synonyms : Synonyms[i].key = normalized
    THEN Synonyms[CHOOSE i \in DOMAIN Synonyms : Synonyms[i].key = normalized].syns
    ELSE <<>>

\* allTypes.find(...) for one synonym: the name of the first declaration whose
\* normalized name contains the synonym or is contained in it, if any
SynonymMatch(syn, allTypes) ==
    LET hits == {i \in DOMAIN allTypes :
                    \/ StrIncludes(Normalized(allTypes[i].name), syn)
                    \/ StrIncludes(syn, Normalized(allTypes[i].name))}
    IN IF hits = {} THEN <<>>
       ELSE <<allTypes[CHOOSE i \in hits : \A k \in hits : i <= k].name>>

\* findSimilarNames
FindSimilarNames(name, allTypes) ==
    LET syns == SynonymsOf(Normalized(name))
        bySynonym == Flatten([k \in DOMAIN syns |-> SynonymMatch(syns[k], allTypes)])
        alike == SelectSeq(allTypes,
                     LAMBDA t : t.name # name /\ IsSimilar(name, t.name))
    IN Dedup(<<name>> \o bySynonym \o [i \in DOMAIN alike |-> alike[i].name])

\* groupEntitiesByMeaning, first loop: similarityMap, key -> sorted name list
RECURSIVE SimilarityMap(_, _)
SimilarityMap(n, types) ==
    IF n = 0 THEN <<>>
    ELSE LET m == SimilarityMap(n - 1, types)
             similar == SortStrings(FindSimilarNames(types[n].name, types))
             key == JoinUnderscore(similar)
         IN IF Len(similar) > 1 /\ ~ \E i \in DOMAIN m : m[i].key = key
            THEN Append(m, [key |-> key, val |-> similar])
            ELSE m

\* Map.get, a missing key giving the empty list
MapGet(m, k) ==
    IF \E i \in DOMAIN m : m[i].key = k
    THEN m[CHOOSE i \in DOMAIN m : m[i].key = k].val
    ELSE <<>>

\* the fields of the definitions with the name of their declaration, in
\* iteration order
FieldEntries(definitions, types) ==
    Flatten([d \in DOMAIN definitions |->
        [k \in DOMAIN types[definitions[d]].fields |->
            [def |-> types[definitions[d]].name,
             field |-> types[definitions[d]].fields[k].name]]])

\* mapFields, the loops: normalized field name -> list of def.name.fieldName
RECURSIVE MapFieldsOver(_)
MapFieldsOver(entries) ==
    IF entries = <<>> THEN <<>>
    ELSE LET m == MapFieldsOver(SubSeq(entries, 1, Len(entries) - 1))
             e == entries[Len(entries)]
         IN MapSet(m, Normalized(e.field),
                   Append(MapGet(m, Normalized(e.field)),
                          e.def \o <<".">> \o e.field))

\* mapFields keyed by the field name as written
MapFieldsByWrittenName(definitions, types) ==
    LET entries == FieldEntries(definitions, types)
    IN Dedup([i \in DOMAIN entries |->
           [key |-> entries[i].field,
            val |-> LET same == SelectSeq(entries,
                                    LAMBDA e : e.field = entries[i].field)
                    IN [j \in DOMAIN same |->
                           same[j].def \o <<".">> \o same[j].field]]])

\* mapFields
MapFields(definitions, types) == MapFieldsOver(FieldEntries(definitions, types))

\* groupEntitiesByMeaning, second loop over the first n entries of the
\* similarityMap: the entities map and the processed set
RECURSIVE GroupLoop(_, _, _)
GroupLoop(n, simMap, types) ==
    IF n = 0 THEN [entities |-> <<>>, processed |-> {}]
    ELSE LET before == GroupLoop(n - 1, simMap, types)
             names == SortByLengthDesc(simMap[n].val)
             primaryName == names[1]
             definitions == SelectSeq([i \in DOMAIN types |-> i],
                                LAMBDA i : Includes(names, types[i].name))
         IN IF simMap[n].key \in before.processed THEN before
            ELSE [entities |->
                      MapSet(before.entities, primaryName,
                             [primaryName |-> primaryName,
                              aliases |-> names,
                              definitions |-> definitions,
                              fieldMappings |-> MapFields(definitions, types)]),
                  processed |-> before.processed \cup Range(names)]

\* the first loop of groupEntitiesByMeaning without the similar.length > 1 test
RECURSIVE SimilarityMapUnguarded(_, _)
SimilarityMapUnguarded(n, types) ==
    IF n = 0 THEN <<>>
    ELSE LET m == SimilarityMapUnguarded(n - 1, types)
             similar == SortStrings(FindSimilarNames(types[n].name, types))
             key == JoinUnderscore(similar)
         IN IF ~ \E i \in DOMAIN m : m[i].key = key
            THEN Append(m, [key |-> key, val |-> similar])
            ELSE m

\* groupEntitiesByMeaning reporting also a name that is similar to no other
GroupEntitiesUnguarded(types) ==
    LET simMap == SimilarityMapUnguarded(Len(types), types)
        grouped == GroupLoop(Len(simMap), simMap, types).entities
    IN [i \in DOMAIN grouped |-> grouped[i].val]

\* groupEntitiesByMeaning: Array.from(entities.values())
GroupEntitiesByMeaning(types) ==
    LET simMap == SimilarityMap(Len(types), types)
        grouped == GroupLoop(Len(simMap), simMap, types).entities
    IN [i \in DOMAIN grouped |-> grouped[i].val]

\* the map of areTypesCompatible
CompatibilityMap ==
    <<[dbType |-> <<"b", "i", "g", "i", "n", "t">>,
       compatibleTypes |-> << <<"s", "t", "r", "i", "n", "g">>,
                              <<"n", "u", "m", "b", "e", "r">>,
                              <<"B", "i", "g", "I", "n", "t">> >>],
      [dbType |-> <<"i", "n", "t", "(", "1", "1", ")">>,
       compatibleTypes |-> << <<"n", "u", "m", "b", "e", "r">>,
                              <<"I", "n", "t", "3", "2">> >>],
      [dbType |-> <<"v", "a", "r", "c", "h", "a", "r">>,
       compatibleTypes |-> << <<"s", "t", "r", "i", "n", "g">>,
                              <<"S", "t", "r", "i", "n", "g">> >>],
      [dbType |-> <<"b", "o", "o", "l", "e", "a", "n">>,
       compatibleTypes |-> << <<"b", "o", "o", "l">>,
                              <<"B", "o", "o", "l", "e", "a", "n">>,
                              <<"b", "o", "o", "l", "e", "a", "n">> >>],
      [dbType |-> <<"t", "i", "m", "e", "s", "t", "a", "m", "p">>,
       compatibleTypes |-> << <<"D", "a", "t", "e">>,
                              <<"D", "a", "t", "e", "T", "i", "m", "e">>,
                              <<"s", "t", "r", "i", "n", "g">> >>],
      [dbType |-> <<"d", "e", "c", "i", "m", "a", "l">>,
       compatibleTypes |-> << <<"n", "u", "m", "b", "e", "r">>,
                              <<"f", "l", "o", "a", "t">>,
                              <<"D", "e", "c", "i", "m", "a", "l">> >>]>>

\* areTypesCompatible
AreTypesCompatible(type1, type2) ==
    LET normalized1 == ToLowerCase(type1)
        normalized2 == ToLowerCase(type2)
    IN \/ normalized1 = normalized2
       \/ \E r \in DOMAIN CompatibilityMap :
              /\ StrIncludes(normalized1, CompatibilityMap[r].dbType)
              /\ \E t \in DOMAIN CompatibilityMap[r].compatibleTypes :
                     StrIncludes(normalized2,
                         ToLowerCase(CompatibilityMap[r].compatibleTypes[t]))

\* entity.definitions.find(d => d.isDatabase), as a list of at most one
DbDef(entity, types) ==
    LET hits == SelectSeq(entity.definitions, LAMBDA d : types[d].isDatabase)
    IN IF hits = <<>> THEN <<>> ELSE <<hits[1]>>

\* entity.definitions.find(d => d.isAPI), as a list of at most one
ApiDef(entity, types) ==
    LET hits == SelectSeq(entity.definitions, LAMBDA d : types[d].isAPI)
    IN IF hits = <<>> THEN <<>> ELSE <<hits[1]>>

\* a findTypeMismatches message: the parts its text is formatted from
Mismatch(entity, dbField, apiField) ==
    [entity |-> entity.primaryName,
     dbField |-> dbField.name, dbType |-> dbField.type,
     apiField |-> apiField.name, apiType |-> apiField.type]

\* findTypeMismatches, one database field against the fields of the API
\* declaration taken by position instead of by normalized name
MismatchOfFieldByPosition(entity, k, dbFields, apiFields) ==
    IF k \in DOMAIN apiFields /\ ~ AreTypesCompatible(dbFields[k].type, apiFields[k].type)
    THEN <<Mismatch(entity, dbFields[k], apiFields[k])>>
    ELSE <<>>

\* findTypeMismatches, the body of the loop over dbDef.fields
MismatchOfField(entity, k, dbFields, apiFields) ==
    LET apiField == SelectSeq(apiFields,
                        LAMBDA f : Normalized(f.name) = Normalized(dbFields[k].name))
    IN IF apiField # <<>> /\ ~ AreTypesCompatible(dbFields[k].type, apiField[1].type)
       THEN <<Mismatch(entity, dbFields[k], apiField[1])>>
       ELSE <<>>

\* findTypeMismatches, the body of the loop over entities
MismatchesOfEntity(entity, types) ==
    LET dbDef == DbDef(entity, types)
        apiDef == ApiDef(entity, types)
    IN IF dbDef # <<>> /\ apiDef # <<>>
       THEN Flatten([k \in DOMAIN types[dbDef[1]].fields |->
                MismatchOfField(entity, k, types[dbDef[1]].fields,
                                types[apiDef[1]].fields)])
       ELSE <<>>

\* findTypeMismatches
FindTypeMismatches(entities, types) ==
    Flatten([e \in DOMAIN entities |-> MismatchesOfEntity(entities[e], types)])

\* analyzeEntities: the returned DataDictionary, built from the entities
DataDictionary(entities, types) ==
    [entities |-> entities,
     typeMismatches |-> FindTypeMismatches(entities, types)]

\* analyzeEntities: the entities and the typeMismatches of the returned DataDictionary
AnalyzeEntitiesOf(types) == DataDictionary(GroupEntitiesByMeaning(types), types)

----------------------------------------------------------------------------
(* analyzeProject, step by step *)

InitDisk ==
    \E n1 \in 0..MaxFuncs :
      \E n2 \in 0..(MaxFuncs - n1) :
        \E n3 \in 0..(MaxFuncs - n1 - n2) :
          \E f1 \in [1..n1 -> FunctionFacts] :
            \E f2 \in [1..n2 -> FunctionFacts] :
              \E f3 \in [1..n3 -> FunctionFacts] :
                disk = (Paths[1] :> f1) @@ (Paths[2] :> f2) @@ (Paths[3] :> f3)

\* no normalizeName call is being followed
NoNaming ==
    /\ identifier = <<>>
    /\ once = <<>>
    /\ twice = <<>>

\* what generateProjectPassport has not written yet
NoPassport == [mainModules |-> <<>>]

\* the parse loop, analyzeCodeQuality and generateProjectPassport have not run
NoSteps ==
    /\ found = <<>>
    /\ pending = <<>>
    /\ issues = <<>>
    /\ passport = NoPassport

\* no isSimilar call is being followed
NoPair ==
    /\ left = <<>>
    /\ right = <<>>
    /\ forth = FALSE
    /\ back = FALSE

Init ==
    /\ InitDisk
    /\ allFiles = <<>>
    /\ pc = "idle"
    /\ runs = 0
    /\ graph = EmptyGraph
    /\ result = NoResult
    /\ dataTypes = <<>>
    /\ catalog = NoCatalog
    /\ features = <<>>
    /\ unreadable = {}
    /\ NoNaming
    /\ NoPair
    /\ NoSteps

\* findProjectFiles and the parse loop (analyzeProject, up to "Спарсено файлов")
FindAndParse ==
    /\ pc = "idle"
    /\ \E matches \in Arrangements(PathSet) :
           allFiles' = allFiles \o ParseAll(FindProjectFiles(matches))
    /\ pc' = "parsed"
    /\ runs' = runs + 1
    /\ UNCHANGED <<disk, graph, result, dataTypes, catalog, features, unreadable, nameVars, pairVars, stepVars>>

ResolveCalls ==
    /\ pc = "parsed"
    /\ allFiles' = AnalyzeCallDependencies(allFiles)
    /\ pc' = "linked"
    /\ UNCHANGED <<disk, runs, graph, result, dataTypes, catalog, features, unreadable, nameVars, pairVars, stepVars>>

CreateFeaturesStep ==
    /\ pc = "linked"
    /\ features' = CreateFeatures(allFiles)
    /\ pc' = "featured"
    /\ UNCHANGED <<disk, allFiles, runs, graph, result, dataTypes, catalog,
                   unreadable, nameVars, pairVars, stepVars>>

BuildGraph ==
    /\ pc = "featured"
    /\ graph' = BuildDependencyGraph(allFiles)
    /\ pc' = "graphed"
    /\ UNCHANGED <<disk, allFiles, runs, result, dataTypes, catalog, features, unreadable, nameVars, pairVars, stepVars>>

\* file.imports of the files of the source tree: no import, or one file
\* importing one name
NoImports == [p \in PathSet |-> {}]

ImportChoices ==
    {NoImports} \cup {[NoImports EXCEPT ![q] = {n}] : q \in PathSet, n \in ImportNames}

\* analyzeCodeQuality reads every file of allFiles again; a file that can no
\* longer be read makes readFileSync throw, and analyzeProject rejects
AnalyzeQuality ==
    /\ pc = "graphed"
    /\ \E bad \in {{}} \cup {{p} : p \in PathSet} :
           /\ unreadable' = bad
           /\ IF \E i \in DOMAIN allFiles : allFiles[i].path \in bad
              THEN /\ pc' = "aborted"
                   /\ issues' = issues
              ELSE /\ pc' = "assessed"
                   /\ \E imports \in ImportChoices :
                          issues' = MissingFunctions(allFiles, imports)
    /\ UNCHANGED <<disk, allFiles, runs, graph, result, dataTypes, catalog,
                   features, nameVars, pairVars, found, pending, passport>>

\* generateProjectPassport: Array.prototype.sort reorders this.allFiles itself
GeneratePassport ==
    /\ pc = "assessed"
    /\ allFiles' = SortByFunctions(allFiles)
    /\ passport' = [mainModules |-> MainModules(SortByFunctions(allFiles))]
    /\ pc' = "passported"
    /\ UNCHANGED <<disk, runs, graph, result, dataTypes, catalog, features,
                   unreadable, nameVars, pairVars, found, pending, issues>>

\* isDbFile, isApiFile, isBackendFile for the paths of the source tree
IsDbFile == (Paths[1] :> FALSE) @@ (Paths[2] :> FALSE) @@ (Paths[3] :> FALSE)

IsApiFile == (Paths[1] :> TRUE) @@ (Paths[2] :> TRUE) @@ (Paths[3] :> FALSE)

IsBackendFile == (Paths[1] :> TRUE) @@ (Paths[2] :> TRUE) @@ (Paths[3] :> TRUE)

\* the interface that the text of each file of the source tree declares
InterfaceDeclared ==
    (Paths[1] :> Balance) @@ (Paths[2] :> Coin) @@ (Paths[3] :> Balances)

\* extractDataTypes: the declarations of the files, in the order of the list
ExtractDataTypes(files) ==
    [i \in DOMAIN files |->
        [name |-> InterfaceDeclared[files[i].path], type |-> "interface",
         fields |-> <<>>, location |-> files[i].path,
         isDatabase |-> IsDbFile[files[i].path],
         isAPI |-> IsApiFile[files[i].path],
         isBackend |-> IsBackendFile[files[i].path]]]

\* new EntityMapper().analyzeEntities(this.allFiles)
ReconcileEntities ==
    /\ pc = "passported"
    /\ dataTypes' = ExtractDataTypes(allFiles)
    /\ catalog' = AnalyzeEntitiesOf(ExtractDataTypes(allFiles))
    /\ pc' = "reconciled"
    /\ UNCHANGED <<disk, allFiles, runs, graph, result, features, unreadable,
                   nameVars, pairVars, stepVars>>

Return ==
    /\ pc = "reconciled"
    /\ result' = Codex(allFiles, graph)
    /\ pc' = "done"
    /\ UNCHANGED <<disk, allFiles, runs, graph, dataTypes, catalog, features, unreadable, nameVars, pairVars, stepVars>>

Next ==
    \/ FindAndParse
    \/ ResolveCalls
    \/ CreateFeaturesStep
    \/ BuildGraph
    \/ AnalyzeQuality
    \/ GeneratePassport
    \/ ReconcileEntities
    \/ Return

Spec == Init /\ [][Next]_vars

\* a further analyzeProject call on the same ProjectAnalyzer, same source tree
CallAgain ==
    /\ pc = "done"
    /\ runs < MaxRuns
    /\ pc' = "idle"
    /\ UNCHANGED <<disk, allFiles, runs, graph, result, dataTypes, catalog, features, unreadable, nameVars, pairVars, stepVars>>

NextReuse == Next \/ CallAgain

SpecReuse == Init /\ [][NextReuse]_vars

----------------------------------------------------------------------------
(* analyzeProject, the parse loop file by file *)

\* a freshly constructed analyzer over a small source tree
InitLoop ==
    /\ Init
    /\ Len(disk[Paths[1]]) + Len(disk[Paths[2]]) + Len(disk[Paths[3]]) <= MaxLoopFuncs

\* const files = await this.findProjectFiles(rootPath)
FindFiles ==
    /\ pc = "idle"
    /\ \E matches \in Arrangements(PathSet) :
           /\ found' = FindProjectFiles(matches)
           /\ pending' = FindProjectFiles(matches)
    /\ pc' = "parsing"
    /\ runs' = runs + 1
    /\ UNCHANGED <<disk, allFiles, graph, result, dataTypes, catalog, features,
                   unreadable, nameVars, pairVars, issues, passport>>

\* one iteration of the loop: the FileAnalysis is pushed, or parse throws
\* (readFileSync on a file that is gone), the catch warns and the file is
\* skipped
ParseNext ==
    /\ pc = "parsing"
    /\ pending # <<>>
    /\ \E thrown \in BOOLEAN :
           allFiles' = IF thrown THEN allFiles
                       ELSE Append(allFiles, Parse(Head(pending)))
    /\ pending' = Tail(pending)
    /\ UNCHANGED <<disk, pc, runs, graph, result, dataTypes, catalog, features,
                   unreadable, nameVars, pairVars, found, issues, passport>>

\* the loop left before the last discovered file has had its iteration
ParseDoneEarly ==
    /\ pc = "parsing"
    /\ pc' = "parsed"
    /\ UNCHANGED <<disk, allFiles, runs, graph, result, dataTypes, catalog,
                   features, unreadable, nameVars, pairVars, stepVars>>

\* for (const filePath of files) ends when no file is left
ParseDone ==
    /\ pc = "parsing"
    /\ pending = <<>>
    /\ pc' = "parsed"
    /\ UNCHANGED <<disk, allFiles, runs, graph, result, dataTypes, catalog,
                   features, unreadable, nameVars, pairVars, stepVars>>

NextLoop ==
    \/ FindFiles
    \/ ParseNext
    \/ ParseDone
    \/ ResolveCalls
    \/ CreateFeaturesStep
    \/ BuildGraph
    \/ AnalyzeQuality
    \/ GeneratePassport
    \/ ReconcileEntities
    \/ Return

SpecLoop == InitLoop /\ [][NextLoop]_vars

----------------------------------------------------------------------------
(* analyzeEntities over a corpus of declarations *)

\* extractDataTypes: an interface found in an API-layer file
ApiInterface(name) ==
    [name |-> name, type |-> "interface", fields |-> <<>>,
     location |-> "src/api/dto.ts",
     isDatabase |-> FALSE, isAPI |-> TRUE, isBackend |-> TRUE]

\* extractDataTypes: a model found in a Prisma schema
SchemaModel(name) ==
    [name |-> name, type |-> "schema", fields |-> <<>>,
     location |-> "prisma/schema.prisma",
     isDatabase |-> TRUE, isAPI |-> FALSE, isBackend |-> FALSE]

Declarations == {ApiInterface(n) : n \in TypeNames} \cup {SchemaModel(n) : n \in TypeNames}

\* the declarations of one file are pushed one after the other
Corpora ==
    {s \in UNION {[1..n -> Declarations] : n \in 0..MaxTypes} :
        \A i, j, k \in DOMAIN s :
            (i < j /\ j < k /\ s[i].location = s[k].location)
                => s[j].location = s[i].location}

InitEntities ==
    /\ dataTypes \in Corpora
    /\ catalog = NoCatalog
    /\ pc = "extracted"
    /\ disk = [p \in PathSet |-> <<>>]
    /\ allFiles = <<>>
    /\ runs = 0
    /\ graph = EmptyGraph
    /\ result = NoResult
    /\ features = <<>>
    /\ unreadable = {}
    /\ NoNaming
    /\ NoPair
    /\ NoSteps

AnalyzeEntities ==
    /\ pc = "extracted"
    /\ catalog' = AnalyzeEntitiesOf(dataTypes)
    /\ pc' = "catalogued"
    /\ UNCHANGED <<disk, allFiles, runs, graph, result, dataTypes, features, unreadable, nameVars, pairVars, stepVars>>

NextEntities == AnalyzeEntities

SpecEntities == InitEntities /\ [][NextEntities]_vars

\* extractDataTypes: an interface found in a file whose path marks it as
\* database layer and as API layer
ApiSchemaInterface(name) ==
    [name |-> name, type |-> "interface", fields |-> <<>>,
     location |-> "src/api/schema.ts",
     isDatabase |-> TRUE, isAPI |-> TRUE, isBackend |-> TRUE]

\* the type texts of the declared fields
TypeInt == <<"I", "n", "t">>
TypeNumber == <<"n", "u", "m", "b", "e", "r">>
TypeBigInt == <<"B", "i", "g", "I", "n", "t">>
TypeString == <<"s", "t", "r", "i", "n", "g">>

\* extractFields, extractPrismaFields: the field maps read from a body, in
\* insertion order
FieldMaps ==
    {<<[name |-> FieldAmount, type |-> TypeInt]>>,
     <<[name |-> FieldAmount, type |-> TypeNumber]>>,
     <<[name |-> FieldAmountUpper, type |-> TypeBigInt]>>,
     <<[name |-> FieldId, type |-> TypeString],
       [name |-> FieldAmountUpper, type |-> TypeNumber]>>}

\* the names of the declarations of a corpus with fields, by position
FieldCorpusNames == <<Money, Coin, Balance, Money, Coin>>

\* the files a declaration with fields is found in
Sites == {"api", "schema", "apischema"}

\* extractDataTypes: the declaration of this name found in a file of this kind
DeclarationAt(site, name) ==
    CASE site = "api" -> ApiInterface(name)
      [] site = "schema" -> SchemaModel(name)
      [] OTHER -> ApiSchemaInterface(name)

\* the declarations of one file are pushed one after the other
FileByFile(s) ==
    \A i, j, k \in DOMAIN s :
        (i < j /\ j < k /\ s[i].location = s[k].location)
            => s[j].location = s[i].location

InitFields ==
    /\ \E n \in 0..MaxFieldTypes :
         \E shape \in [1..n -> [site : Sites, fields : FieldMaps]] :
           LET s == [i \in 1..n |->
                        [DeclarationAt(shape[i].site, FieldCorpusNames[i])
                            EXCEPT !.fields = shape[i].fields]]
           IN FileByFile(s) /\ dataTypes = s
    /\ catalog = NoCatalog
    /\ pc = "extracted"
    /\ disk = [p \in PathSet |-> <<>>]
    /\ allFiles = <<>>
    /\ runs = 0
    /\ graph = EmptyGraph
    /\ result = NoResult
    /\ features = <<>>
    /\ unreadable = {}
    /\ NoNaming
    /\ NoPair
    /\ NoSteps

SpecFields == InitFields /\ [][NextEntities]_vars

\* corpora of API-layer interfaces only, one declaration longer
NameCorpora == UNION {[1..n -> {ApiInterface(x) : x \in ClusterNames}] : n \in 0..MaxNames}

InitNames ==
    /\ dataTypes \in NameCorpora
    /\ catalog = NoCatalog
    /\ pc = "extracted"
    /\ disk = [p \in PathSet |-> <<>>]
    /\ allFiles = <<>>
    /\ runs = 0
    /\ graph = EmptyGraph
    /\ result = NoResult
    /\ features = <<>>
    /\ unreadable = {}
    /\ NoNaming
    /\ NoPair
    /\ NoSteps

SpecNames == InitNames /\ [][NextEntities]_vars

----------------------------------------------------------------------------
(* normalizeName over identifiers *)

\* a lower-case letter, an upper-case letter, a digit, the underscore and a
\* character of no other class
IdentifierChars == {"a", "D", "1", "_", "-"}

Identifiers == UNION {[1..n -> IdentifierChars] : n \in 0..MaxLen}

InitNormalize ==
    /\ identifier \in Identifiers
    /\ once = <<>>
    /\ twice = <<>>
    /\ pc = "named"
    /\ disk = [p \in PathSet |-> <<>>]
    /\ allFiles = <<>>
    /\ runs = 0
    /\ graph = EmptyGraph
    /\ result = NoResult
    /\ dataTypes = <<>>
    /\ catalog = NoCatalog
    /\ features = <<>>
    /\ unreadable = {}
    /\ NoPair
    /\ NoSteps

\* normalizeName(identifier)
Normalize ==
    /\ pc = "named"
    /\ once' = NormalizeName(identifier)
    /\ pc' = "normalized"
    /\ UNCHANGED <<disk, allFiles, runs, graph, result, dataTypes, catalog,
                   features, unreadable, identifier, twice, pairVars,
                   stepVars>>

\* normalizeName of the returned key
NormalizeAgain ==
    /\ pc = "normalized"
    /\ twice' = NormalizeName(once)
    /\ pc' = "renormalized"
    /\ UNCHANGED <<disk, allFiles, runs, graph, result, dataTypes, catalog,
                   features, unreadable, identifier, once, pairVars,
                   stepVars>>

NextNormalize == Normalize \/ NormalizeAgain

SpecNormalize == InitNormalize /\ [][NextNormalize]_vars

----------------------------------------------------------------------------
(* isSimilar over pairs of names *)

\* the characters of the compared names
SimilarChars == {"a", "b"}

SimilarNames == UNION {[1..n -> SimilarChars] : n \in 1..MaxSimLen}

InitSimilar ==
    /\ left \in SimilarNames
    /\ right \in SimilarNames
    /\ forth = FALSE
    /\ back = FALSE
    /\ pc = "paired"
    /\ disk = [p \in PathSet |-> <<>>]
    /\ allFiles = <<>>
    /\ runs = 0
    /\ graph = EmptyGraph
    /\ result = NoResult
    /\ dataTypes = <<>>
    /\ catalog = NoCatalog
    /\ features = <<>>
    /\ unreadable = {}
    /\ NoNaming
    /\ NoSteps

\* isSimilar(left, right)
Compare ==
    /\ pc = "paired"
    /\ forth' = IsSimilar(left, right)
    /\ pc' = "compared"
    /\ UNCHANGED <<disk, allFiles, runs, graph, result, dataTypes, catalog,
                   features, unreadable, nameVars, left, right, back,
                   stepVars>>

\* isSimilar(right, left)
CompareBack ==
    /\ pc = "compared"
    /\ back' = IsSimilar(right, left)
    /\ pc' = "compared both ways"
    /\ UNCHANGED <<disk, allFiles, runs, graph, result, dataTypes, catalog,
                   features, unreadable, nameVars, left, right, forth,
                   stepVars>>

NextSimilar == Compare \/ CompareBack

SpecSimilar == InitSimilar /\ [][NextSimilar]_vars

----------------------------------------------------------------------------
(* Call graph resolver: properties *)

Resolved == pc \in {"linked", "featured", "graphed", "assessed", "aborted", "done"}

Graphed == pc \in {"graphed", "assessed", "aborted", "done"}

\* the paths whose file declares a function with this bare name
DeclaringPaths(n) == {p \in PathSet : \E k \in DOMAIN disk[p] : disk[p][k].name = n}

\* the lexicographically first of a non-empty set of paths
FirstPath(S) == CHOOSE p \in S : \A q \in S : p = q \/ PathLess(p, q)

\* the edges of the graph that leave id for a declaration of the name called
EdgesFor(id, called) ==
    {e \in DOMAIN graph.edges :
        /\ graph.edges[e].from = id
        /\ \E p \in PathSet : graph.edges[e].to = NodeId(called, p)}

EdgesFrom(id) == {e \in DOMAIN graph.edges : graph.edges[e].from = id}

Count(s, x) == Cardinality({i \in DOMAIN s : s[i] = x})

\* C1: every callee name of every function yields exactly one edge from the
\* caller, to name@file for the lexicographically first file declaring the
\* name, and no edge when no file declares it; with getBalance declared in the
\* first two files and called by the only function of the third, that caller
\* has exactly one edge, to getBalance@firstfile.
C1_CallResolution ==
    Graphed =>
        /\ \A i \in DOMAIN allFiles : \A j \in DOMAIN allFiles[i].functions :
             LET f == allFiles[i].functions[j]
                 id == NodeId(f.name, allFiles[i].path)
             IN \A c \in DOMAIN f.calls :
                  IF DeclaringPaths(f.calls[c]) = {}
                  THEN EdgesFor(id, f.calls[c]) = {}
                  ELSE /\ Cardinality(EdgesFor(id, f.calls[c])) = 1
                       /\ \A e \in EdgesFor(id, f.calls[c]) :
                            graph.edges[e].to =
                                NodeId(f.calls[c], FirstPath(DeclaringPaths(f.calls[c])))
        /\ ( /\ "getBalance" \in {disk[Paths[1]][k].name : k \in DOMAIN disk[Paths[1]]}
             /\ "getBalance" \in {disk[Paths[2]][k].name : k \in DOMAIN disk[Paths[2]]}
             /\ disk[Paths[3]] = <<[name |-> "pay", calls |-> <<"getBalance">>]>> )
           => {graph.edges[e] : e \in EdgesFrom(NodeId("pay", Paths[3]))}
                = {[from |-> NodeId("pay", Paths[3]),
                    to |-> NodeId("getBalance", Paths[1]),
                    type |-> "calls"]}

\* C1 witness: scenario A has run and the caller's edge targets the first file
C1_Witness ==
    /\ pc = "done"
    /\ disk[Paths[1]] = <<[name |-> "getBalance", calls |-> <<>>]>>
    /\ disk[Paths[2]] = <<[name |-> "getBalance", calls |-> <<>>]>>
    /\ disk[Paths[3]] = <<[name |-> "pay", calls |-> <<"getBalance">>]>>
    /\ result.dependencies.edges =
           <<[from |-> NodeId("pay", Paths[3]),
              to |-> NodeId("getBalance", Paths[1]), type |-> "calls"]>>

\* C2: no call edge of the dependency graph has from equal to to.
C2_NoSelfEdges ==
    Graphed => \A e \in DOMAIN graph.edges : graph.edges[e].from # graph.edges[e].to

\* the functions of allFiles as (file index, function index) pairs
FuncRefs ==
    UNION {{<<i, j>> : j \in DOMAIN allFiles[i].functions} : i \in DOMAIN allFiles}

FuncAt(r) == allFiles[r[1]].functions[r[2]]

\* scenario A: n is declared in two files, and a differently named function
\* of a third file calls n
ScenarioA(d1, d2, caller) ==
    /\ d1[1] # d2[1] /\ caller[1] # d1[1] /\ caller[1] # d2[1]
    /\ allFiles[d1[1]].path # allFiles[d2[1]].path
    /\ allFiles[caller[1]].path \notin {allFiles[d1[1]].path, allFiles[d2[1]].path}
    /\ FuncAt(d1).name = FuncAt(d2).name
    /\ FuncAt(caller).name # FuncAt(d1).name
    /\ Includes(FuncAt(caller).calls, FuncAt(d1).name)

C4_BacklinkCompleteness ==
    Resolved =>
        \A g, d \in FuncRefs :
            (g # d /\ Includes(FuncAt(g).calls, FuncAt(d).name))
            => Includes(FuncAt(d).calledBy, FuncAt(g).name)

\* C5: no two edges of the returned graph are identical in (from, to, type),
\* so at most one calls edge links any A to any B.
C5_EdgeDedup ==
    Graphed =>
        \A e1, e2 \in DOMAIN graph.edges :
            e1 # e2 => graph.edges[e1] # graph.edges[e2]

\* C5 witness: two functions of one id both call getBalance, one edge is kept
C5_Witness ==
    /\ pc = "done"
    /\ \E p \in PathSet :
         /\ Len(disk[p]) >= 2
         /\ disk[p][1].name = disk[p][2].name
         /\ Includes(disk[p][1].calls, "getBalance")
         /\ Includes(disk[p][2].calls, "getBalance")
         /\ DeclaringPaths("getBalance") # {}
         /\ Cardinality(EdgesFor(NodeId(disk[p][1].name, p), "getBalance")) = 1

\* what a freshly constructed analyzer returns for the source tree
FreshCodex ==
    LET files == AnalyzeCallDependencies(ParseAll(Paths))
    IN Codex(SortByFunctions(files), BuildDependencyGraph(files))

\* C7: every completed analyzeProject call returns what a freshly constructed
\* analyzer returns for that source tree (filesAnalyzed, the function list
\* with its calledBy lists, the edges), also a second call on one instance.
C7_RunsAreIndependent ==
    pc = "done" => result = FreshCodex

----------------------------------------------------------------------------
(* Entity reconciler: properties *)

Catalogued == pc = "catalogued"

DeclaredNames == {dataTypes[i].name : i \in DOMAIN dataTypes}

\* C8: no declaration appears in the definitions of two different entities
\* of the returned catalog.
C8_OneEntityPerDeclaration ==
    Catalogued =>
        \A e1, e2 \in DOMAIN catalog.entities :
            e1 # e2 =>
                Range(catalog.entities[e1].definitions)
                    \cap Range(catalog.entities[e2].definitions) = {}

\* C9: an API-layer interface Money and a schema model Money, with no other
\* declaration in the corpus, are reported as one entity named Money with
\* two member declarations.
C9_SameNameAcrossFiles ==
    (Catalogued /\ dataTypes \in {<<ApiInterface(Money), SchemaModel(Money)>>,
                                  <<SchemaModel(Money), ApiInterface(Money)>>})
    => \E e \in DOMAIN catalog.entities :
           /\ catalog.entities[e].primaryName = Money
           /\ Len(catalog.entities[e].definitions) = 2

\* some entity lists both names among its aliases
Together(a, b) ==
    \E e \in DOMAIN catalog.entities :
        {a, b} \subseteq Range(catalog.entities[e].aliases)

\* C10 as stated: with Coin and Balance declared and no type named Money or
\* money, no entity has both Coin and Balance among its aliases.
C10_CoinBalanceApart ==
    (Catalogued /\ {Coin, Balance} \subseteq DeclaredNames
        /\ DeclaredNames \cap {Money, MoneyLower} = {})
    => ~ Together(Coin, Balance)

\* C10 amended: the synonym table also has a coin key that lists balance, so
\* a corpus whose declared names are Coin and Balance (no Money anchor) yields
\* exactly one entity, primaryName Balance, aliases Balance and Coin, holding
\* every declaration.
C10_CoinBalanceTogether ==
    (Catalogued /\ DeclaredNames = {Coin, Balance})
    => catalog.entities =
           <<[primaryName |-> Balance,
              aliases |-> <<Balance, Coin>>,
              definitions |-> [i \in DOMAIN dataTypes |-> i],
              fieldMappings |-> <<>>]>>

\* C10 witness: Coin and Balance alone have been grouped into one entity
C10_Witness ==
    /\ Catalogued
    /\ dataTypes = <<ApiInterface(Coin), SchemaModel(Balance)>>
    /\ Together(Coin, Balance)

\* the position of the first declaration with this name
FirstDeclared(name) ==
    CHOOSE i \in DOMAIN dataTypes :
        /\ dataTypes[i].name = name
        /\ \A k \in DOMAIN dataTypes : dataTypes[k].name = name => i <= k

\* C11: the primaryName of every entity is one of its aliases of greatest
\* length, and among the aliases of that length it is the one whose
\* declaration comes first in the corpus.
C11_PrimaryLongestFirstSeen ==
    Catalogued =>
        \A e \in DOMAIN catalog.entities :
            LET ent == catalog.entities[e]
            IN /\ Includes(ent.aliases, ent.primaryName)
               /\ \A a \in Range(ent.aliases) :
                      /\ Len(a) <= Len(ent.primaryName)
                      /\ Len(a) = Len(ent.primaryName)
                            => FirstDeclared(ent.primaryName) <= FirstDeclared(a)

\* the declaration at position i has a peer: a declaration with another name
\* that findSimilarNames returns for it, or that it is returned for
HasPeer(i) ==
    \E j \in DOMAIN dataTypes :
        /\ dataTypes[j].name # dataTypes[i].name
        /\ \/ Includes(FindSimilarNames(dataTypes[i].name, dataTypes), dataTypes[j].name)
           \/ Includes(FindSimilarNames(dataTypes[j].name, dataTypes), dataTypes[i].name)

\* C12: every entity has at least two distinct aliases and at least two
\* member declarations, and a declaration without a similar peer is a member
\* of no entity.
C12_ClustersOfTwoOrMore ==
    Catalogued =>
        /\ \A e \in DOMAIN catalog.entities :
               /\ Cardinality(Range(catalog.entities[e].aliases)) >= 2
               /\ Len(catalog.entities[e].definitions) >= 2
        /\ \A i \in DOMAIN dataTypes :
               ~ HasPeer(i) =>
                   \A e \in DOMAIN catalog.entities :
                       ~ Includes(catalog.entities[e].definitions, i)

\* C12 witness: a corpus with an entity of two declarations next to a
\* declaration that has no peer and is in no entity
C12_Witness ==
    /\ Catalogued
    /\ catalog.entities # <<>>
    /\ \E i \in DOMAIN dataTypes :
           /\ ~ HasPeer(i)
           /\ \A e \in DOMAIN catalog.entities :
                  ~ Includes(catalog.entities[e].definitions, i)

\* the corpus without its k-th declaration
Without(s, k) == SubSeq(s, 1, k - 1) \o SubSeq(s, k + 1, Len(s))

\* some alias of the entity has this normalized form
HasForm(ent, form) == \E a \in Range(ent.aliases) : NormalizeName(a) = form

\* two entities of the catalog without a common alias, each with an alias
\* of this normalized form
SplitForm(form) ==
    \E e1, e2 \in DOMAIN catalog.entities :
        /\ Range(catalog.entities[e1].aliases) \cap Range(catalog.entities[e2].aliases) = {}
        /\ HasForm(catalog.entities[e1], form)
        /\ HasForm(catalog.entities[e2], form)

\* the k-th declaration is an addition to a corpus whose catalog already has
\* a cluster with an alias of the same normalized form
JoinsCluster(k) ==
    \E e \in DOMAIN AnalyzeEntitiesOf(Without(dataTypes, k)).entities :
        HasForm(AnalyzeEntitiesOf(Without(dataTypes, k)).entities[e],
                NormalizeName(dataTypes[k].name))

\* C13: when a declaration is added to a corpus whose catalog has a cluster
\* with an alias of the same normalized name, the catalog of the larger
\* corpus never has two disjoint entities that each contain a name of that
\* normalized form.
C13_ClusterMonotonicity ==
    Catalogued =>
        \A k \in DOMAIN dataTypes :
            JoinsCluster(k) => ~ SplitForm(NormalizeName(dataTypes[k].name))

\* C13 witness: money added to a corpus that clusters Money with Coin, the
\* catalog of the four declarations having two entities
C13_Witness ==
    /\ Catalogued
    /\ Len(dataTypes) = MaxNames
    /\ \E k \in DOMAIN dataTypes :
           /\ dataTypes[k].name = MoneyLower
           /\ JoinsCluster(k)
           /\ \A j \in DOMAIN dataTypes : j # k => dataTypes[j].name # MoneyLower
    /\ Len(catalog.entities) >= 2

----------------------------------------------------------------------------
(* normalizeName: properties *)

\* C14: normalizing a normalized identifier returns it unchanged, for every
\* identifier over upper- and lower-case letters, digits, underscores and
\* other characters.
C14_NormalizeIdempotent ==
    pc = "renormalized" => twice = once

\* C14 witness: an identifier that normalizeName changed to a non-empty key
\* has been normalized twice
C14_Witness ==
    /\ pc = "renormalized"
    /\ identifier = <<"_", "D", "-">>
    /\ once = <<"d">>
    /\ twice = once

\* C15: normalizeName puts a separator before each letter that is upper-case
\* in the identifier, so an upper-case letter that follows a letter or a
\* digit leaves an underscore in the key.
C15_CamelCaseSegmented ==
    pc # "named" =>
        \A i \in 2..Len(identifier) :
            (IsUpper(identifier[i])
                /\ identifier[i - 1] \in Range(Lowers) \cup Range(Uppers) \cup Range(Digits))
            => \E k \in 2..(Len(once) - 1) : once[k] = "_"

----------------------------------------------------------------------------
(* Cross-layer type mismatches: properties *)

\* the entity of the catalog with this primaryName
EntityNamed(primaryName) ==
    catalog.entities[CHOOSE e \in DOMAIN catalog.entities :
                         catalog.entities[e].primaryName = primaryName]

\* the declarations of an entity carrying the database tag, the API tag
DbSide(ent) == {d \in Range(ent.definitions) : dataTypes[d].isDatabase}
ApiSide(ent) == {d \in Range(ent.definitions) : dataTypes[d].isAPI}

\* some declaration among ds has this field with this type text
Declares(ds, fieldName, typeText) ==
    \E d \in ds : \E k \in DOMAIN dataTypes[d].fields :
        dataTypes[d].fields[k] = [name |-> fieldName, type |-> typeText]

\* C16: every reported mismatch pairs a field of a database-tagged
\* declaration with a field of an API-tagged declaration of the same entity,
\* the two field names having one normalized form and the two type texts
\* being judged incompatible; an entity without a database-tagged declaration
\* has no mismatch, and a database field whose normalized name no API-side
\* field has is named in no mismatch.
C16_MismatchSoundness ==
    Catalogued =>
        /\ \A m \in Range(catalog.typeMismatches) :
               /\ \E e \in DOMAIN catalog.entities :
                      catalog.entities[e].primaryName = m.entity
               /\ Declares(DbSide(EntityNamed(m.entity)), m.dbField, m.dbType)
               /\ Declares(ApiSide(EntityNamed(m.entity)), m.apiField, m.apiType)
               /\ NormalizeName(m.dbField) = NormalizeName(m.apiField)
               /\ ~ AreTypesCompatible(m.dbType, m.apiType)
        /\ \A e \in DOMAIN catalog.entities :
               DbSide(catalog.entities[e]) = {} =>
                   \A m \in Range(catalog.typeMismatches) :
                       m.entity # catalog.entities[e].primaryName
        /\ \A e \in DOMAIN catalog.entities :
               \A d \in DbSide(catalog.entities[e]) :
                   \A k \in DOMAIN dataTypes[d].fields :
                       (\A a \in ApiSide(catalog.entities[e]) :
                            \A j \in DOMAIN dataTypes[a].fields :
                                NormalizeName(dataTypes[a].fields[j].name)
                                    # NormalizeName(dataTypes[d].fields[k].name))
                       => \A m \in Range(catalog.typeMismatches) :
                              ~ (m.entity = catalog.entities[e].primaryName
                                    /\ m.dbField = dataTypes[d].fields[k].name)

\* C16 witness: the schema model Money with id String and Amount number next
\* to the API interface Coin with amount Int: one mismatch, Amount against
\* amount, none for id
C16_Witness ==
    /\ Catalogued
    /\ dataTypes = <<[SchemaModel(Money) EXCEPT !.fields =
                         <<[name |-> FieldId, type |-> TypeString],
                           [name |-> FieldAmountUpper, type |-> TypeNumber]>>],
                     [ApiInterface(Coin) EXCEPT !.fields =
                         <<[name |-> FieldAmount, type |-> TypeInt]>>]>>
    /\ catalog.typeMismatches =
           <<[entity |-> Money,
              dbField |-> FieldAmountUpper, dbType |-> TypeNumber,
              apiField |-> FieldAmount, apiType |-> TypeInt]>>

----------------------------------------------------------------------------
(* Unreadable files and features: properties *)

\* C17: when a file can no longer be read at the time it is read again, the
\* run is not aborted: it goes on and completes.
C17_UnreadableFileDoesNotAbort ==
    unreadable # {} => pc \in {"assessed", "done"}

Featured == pc \in {"featured", "graphed", "assessed", "aborted", "done"}

\* the analyzed file with this path
FileAt(path) == allFiles[CHOOSE i \in DOMAIN allFiles : allFiles[i].path = path]

\* the functions of the analyzed files whose feature name is this, in the
\* order of the discovered paths (the order createFeatures iterates in)
FunctionsKeyed(name) ==
    Flatten([k \in DOMAIN Paths |->
                IF FeatureName(Paths[k]) = name
                THEN FileAt(Paths[k]).functions
                ELSE <<>>])

\* C18: after createFeatures there is exactly one feature per distinct
\* grouping key of the analyzed files, and every function of every file is a
\* member of the feature keyed by its file's grouping key and of no other:
\* the functions of a feature are those of the files with its key, each once.
C18_FeaturePartition ==
    Featured =>
        /\ \A a, b \in DOMAIN features :
               a # b => features[a].name # features[b].name
        /\ {features[a].name : a \in DOMAIN features}
               = {FeatureName(allFiles[k].path) : k \in DOMAIN allFiles}
        /\ \A a \in DOMAIN features :
               features[a].functions = FunctionsKeyed(features[a].name)

\* C18 witness: the two files of src/api each declare a function, the file of
\* src/db declares one, and createFeatures has returned two features
C18_Witness ==
    /\ pc = "featured"
    /\ \A p \in PathSet : Len(disk[p]) = 1
    /\ Len(features) = 2
    /\ Len(features[1].functions) = 2
    /\ Len(features[2].functions) = 1

\* some function of feature a has a callee with the bare name of a function
\* of feature b
CallsInto(a, b) ==
    \E f \in DOMAIN features[a].functions :
        \E g \in DOMAIN features[b].functions :
            Includes(features[a].functions[f].calls, features[b].functions[g].name)

\* C19: a feature lists another feature among its dependencies exactly when
\* one of its functions has a callee with the bare name of a function of
\* that other feature; it never lists itself, mutual dependencies are both
\* kept, and without such a callee the list is the empty list.
C19_FeatureDependencies ==
    Featured =>
        \A a \in DOMAIN features :
            /\ Range(features[a].dependencies)
                   \subseteq {features[b].name : b \in DOMAIN features}
            /\ \A b \in DOMAIN features :
                   Includes(features[a].dependencies, features[b].name)
                       <=> (a # b /\ CallsInto(a, b))
            /\ (\A b \in DOMAIN features : a # b => ~ CallsInto(a, b))
                   => features[a].dependencies = <<>>

\* C19 witness: two features that depend on each other, the first one also
\* calling a function of its own
C19_Witness ==
    /\ pc = "featured"
    /\ Len(features) = 2
    /\ features[1].dependencies = <<features[2].name>>
    /\ features[2].dependencies = <<features[1].name>>
    /\ CallsInto(1, 1)

----------------------------------------------------------------------------
(* Transitive clustering: properties *)

\* two declared names are linked: findSimilarNames returns one of them for
\* the other, by the synonym table or by the similarity test
Linked(a, b) ==
    /\ a # b
    /\ \/ Includes(FindSimilarNames(a, dataTypes), b)
       \/ Includes(FindSimilarNames(b, dataTypes), a)

\* C20: when A is linked to B and B is linked to C, one single entity has A,
\* B and C among its aliases, and no other entity has any of them, also when
\* A and C are not linked directly.
C20_TransitiveClustering ==
    Catalogued =>
        \A a, b, c \in DeclaredNames :
            (a # c /\ Linked(a, b) /\ Linked(b, c)) =>
                \E e \in DOMAIN catalog.entities :
                    /\ {a, b, c} \subseteq Range(catalog.entities[e].aliases)
                    /\ \A o \in DOMAIN catalog.entities :
                           o # e => Range(catalog.entities[o].aliases) \cap {a, b, c} = {}

----------------------------------------------------------------------------
(* isSimilar: properties *)

Compared == pc \in {"compared", "compared both ways"}

\* the size of the multiset intersection of the characters of two strings
RECURSIVE SharedCount(_, _, _)
SharedCount(chars, s, t) ==
    IF chars = {} THEN 0
    ELSE LET c == CHOOSE x \in chars : TRUE
         IN Min(Count(s, c), Count(t, c)) + SharedCount(chars \ {c}, s, t)

\* neither normalized name equals or contains the other
Apart(s, t) == s # t /\ ~ StrIncludes(s, t) /\ ~ StrIncludes(t, s)

\* C21: for two normalized names of which neither equals or contains the
\* other, isSimilar holds exactly when twice the size of the multiset
\* intersection of their characters, divided by the sum of their lengths, is
\* strictly greater than 0.6.
C21_MultisetOverlap ==
    (Compared /\ NormalizeName(left) = left /\ NormalizeName(right) = right
        /\ Apart(left, right))
    => (forth <=> 10 * SharedCount(Range(left) \cup Range(right), left, right)
                      > 3 * (Len(left) + Len(right)))

\* a corpus that declares the two compared names
PairCorpus == <<ApiInterface(left), ApiInterface(right)>>

\* C28: for any two declared names a and b, isSimilar(a, b) equals
\* isSimilar(b, a), and findSimilarNames returns b for a exactly when it
\* returns a for b.
C28_LinkingIsSymmetric ==
    pc = "compared both ways" =>
        /\ forth = back
        /\ Includes(FindSimilarNames(left, PairCorpus), right)
               <=> Includes(FindSimilarNames(right, PairCorpus), left)

----------------------------------------------------------------------------
(* Mismatch completeness: properties *)

\* some reported mismatch of the entity names this database field
Reported(ent, field) ==
    \E m \in Range(catalog.typeMismatches) :
        /\ m.entity = ent.primaryName
        /\ m.dbField = field.name
        /\ m.dbType = field.type

\* C22: for each entity with a database-tagged and an API-tagged declaration,
\* every field of every database-tagged declaration that has a field of the
\* same normalized name and an incompatible type text in an API-tagged
\* declaration of the entity is named in a reported mismatch, also when the
\* entity has several declarations of a layer.
C22_MismatchCompleteness ==
    Catalogued =>
        \A e \in DOMAIN catalog.entities :
            \A d \in DbSide(catalog.entities[e]) :
                \A a \in ApiSide(catalog.entities[e]) :
                    \A k \in DOMAIN dataTypes[d].fields :
                        \A j \in DOMAIN dataTypes[a].fields :
                            ( /\ NormalizeName(dataTypes[d].fields[k].name)
                                     = NormalizeName(dataTypes[a].fields[j].name)
                              /\ ~ AreTypesCompatible(dataTypes[d].fields[k].type,
                                                      dataTypes[a].fields[j].type) )
                            => Reported(catalog.entities[e], dataTypes[d].fields[k])

----------------------------------------------------------------------------
(* Field reconciliation: properties *)

\* the fields of the member declarations of an entity, one list per member
MemberFields(ent) == [d \in DOMAIN ent.definitions |-> dataTypes[ent.definitions[d]].fields]

\* the occurrences, in the member declarations of an entity, of a field with
\* this normalized name whose entry reads this text
Occurrences(ent, form, text) ==
    UNION {{<<d, k>> : k \in {x \in DOMAIN dataTypes[ent.definitions[d]].fields :
                /\ NormalizeName(dataTypes[ent.definitions[d]].fields[x].name) = form
                /\ dataTypes[ent.definitions[d]].name \o <<".">>
                       \o dataTypes[ent.definitions[d]].fields[x].name = text}} :
           d \in DOMAIN ent.definitions}

----------------------------------------------------------------------------
(* Clusters of the catalog: properties *)

\* the alias set groupEntitiesByMeaning computes for a declared name
AliasSet(name) == Range(FindSimilarNames(name, dataTypes))

\* C29: every distinct alias set of two or more names that is computed for
\* some declared name is the alias set of exactly one entity of the returned
\* catalog, also when two different alias sets have the same longest name.
C29_NoClusterLost ==
    Catalogued =>
        \A n \in DeclaredNames :
            Cardinality(AliasSet(n)) >= 2 =>
                Cardinality({e \in DOMAIN catalog.entities :
                                Range(catalog.entities[e].aliases) = AliasSet(n)}) = 1

----------------------------------------------------------------------------
(* Backlinks: properties *)

\* no file declares two functions of one name
DistinctIdentities ==
    \A p \in PathSet : \A j, k \in DOMAIN disk[p] :
        j # k => disk[p][j].name # disk[p][k].name

\* the functions other than d that have this name and call the name of d
CallersNamed(d, name) ==
    {g \in FuncRefs : /\ g # d
                      /\ FuncAt(g).name = name
                      /\ Includes(FuncAt(g).calls, FuncAt(d).name)}

\* C27: after one run of analyzeCallDependencies over functions with distinct
\* (file, name) identities, the calledBy list of every function holds the
\* name of each distinct calling function exactly once, and its own name only
\* for a different function of that name that calls it.
C27_NoDuplicateBacklinks ==
    (Resolved /\ runs = 1 /\ DistinctIdentities) =>
        \A d \in FuncRefs : \A name \in Names :
            Count(FuncAt(d).calledBy, name) = Cardinality(CallersNamed(d, name))

----------------------------------------------------------------------------
(* Graph closure: properties *)

\* the name@file identifiers of the source tree
CompositeIds == {NodeId(n, p) : n \in Names, p \in PathSet}

----------------------------------------------------------------------------
(* Missing functions and call edges: properties *)

Assessed == pc \in {"assessed", "passported", "reconciled", "done"}

\* C30: analyzeCodeQuality reports a missing-function issue for a caller and
\* a callee name only if no function with that bare name exists in the
\* corpus, so that buildDependencyGraph produces no edge from the caller for
\* that name; a name that resolves to an edge is never reported as missing.
C30_MissingExcludesEdge ==
    Assessed =>
        \A k \in DOMAIN issues :
            /\ DeclaringPaths(issues[k].called) = {}
            /\ EdgesFor(NodeId(issues[k].func, issues[k].location),
                        issues[k].called) = {}

\* C30 witness: a function that calls getBalance and pay, getBalance being
\* declared and pay not: an edge for the one name, an issue for the other
C30_Witness ==
    /\ pc = "done"
    /\ \E k \in DOMAIN issues :
           /\ issues[k].called = "pay"
           /\ EdgesFor(NodeId(issues[k].func, issues[k].location), "getBalance") # {}

----------------------------------------------------------------------------
(* Fact store: properties *)

\* the per-file records without the calledBy lists: the path of each file
\* and the name and callee list of each of its functions, in order
Facts(files) ==
    [i \in DOMAIN files |->
        [path |-> files[i].path,
         functions |-> [j \in DOMAIN files[i].functions |->
                           [name |-> files[i].functions[j].name,
                            calls |-> files[i].functions[j].calls]]]]

\* the paths of the files the declarations were extracted from, in order
LocationsSeen == [i \in DOMAIN dataTypes |-> dataTypes[i].location]

\* C23: from the end of parsing to the return of analyzeProject the sequence
\* of per-file records keeps its order and its content (every function's
\* name, file and callee list), only calledBy lists grow; and the entity
\* reconciler receives the files in the order call resolution saw them.
C23_FactStoreImmutable ==
    /\ pc # "idle" => Facts(allFiles) = Facts(ParseAll(Paths))
    /\ pc \in {"reconciled", "done"} => LocationsSeen = Paths

----------------------------------------------------------------------------
(* Phase ordering: properties *)

\* the paths of the records of the fact store, in order
PathsParsed == [i \in DOMAIN allFiles |-> allFiles[i].path]

\* the discovered files whose loop iteration has run
Visited == SubSeq(found, 1, Len(found) - Len(pending))

\* C25: whenever analyzeProject is at or past the start of call resolution
\* (analyzeCallDependencies, then createFeatures, buildDependencyGraph and,
\* later, analyzeEntities), the parse loop has had its iteration for every
\* file findProjectFiles returned: no discovered file is still pending, and
\* the file list the phases read holds the records of the visited files
\* whose parse did not throw, in discovery order.
C25_PhasesAfterParseLoop ==
    pc \notin {"idle", "parsing"} =>
        /\ pending = <<>>
        /\ Visited = found
        /\ \A i \in DOMAIN allFiles : Includes(found, allFiles[i].path)
        /\ pc \in {"parsed", "linked", "featured", "graphed", "assessed"} =>
               PathsParsed = SelectSeq(found, LAMBDA p : \E i \in DOMAIN allFiles : allFiles[i].path = p)

\* the entity reconciliation has run after a loop over three discovered
\* files, one of which was skipped because its parse threw
C25_Witness ==
    /\ pc = "reconciled"
    /\ found = Paths
    /\ PathsParsed = <<Paths[1], Paths[3]>>
    /\ Len(dataTypes) = 2
    /\ graph # EmptyGraph

====
